---- MODULE Spec2Model ----
(***************************************************************************)
(* StreamingQR: the chunk-envelope protocol and the playback scheduler of  *)
(* src/components/streaming-qr.tsx (and its later revision with a code     *)
(* family selector, src/unnamed/part_000).                                 *)
(*                                                                         *)
(* The component is a React function component.  Its hook state            *)
(* (currentChunkIndex, chunks, streamId, codeType) changes only when React *)
(* renders; a setState call appends to an update queue that the next       *)
(* render applies in order.  Its refs (intervalRef, hasCompletedRef) and   *)
(* the browser's interval timers change at once.  Effects run after the    *)
(* render that changed one of their dependencies, the previous run's       *)
(* cleanup first.                                                          *)
(*                                                                         *)
(* Scheduling.  A prop change comes from a discrete event of the page: its *)
(* render and the effects it triggers run in one step, and that render     *)
(* applies the updates already queued (the model renders them first).      *)
(* Updates queued by an effect or by an interval callback are rendered in  *)
(* a later task, and the scheduler effect that such a render triggers in   *)
(* a later one still: interval callbacks can run in between.  The updater  *)
(* of an interval callback has side effects; React runs it at once when no *)
(* update is pending and at the next render otherwise, and may always      *)
(* leave it for the render.                                                *)
(***************************************************************************)
EXTENDS Integers, Sequences, FiniteSets, TLC

\* ---------------------------------------------------------------- bounds
MaxLen == 3          \* longest text of the chunker specification
MaxChunkSize == 2    \* chunkSize ranges over 1..MaxChunkSize
MaxQueue == 2        \* most state updates queued between two renders
MaxTimerIds == 3     \* interval handles that can be in use at once
MaxStreamIds == 2    \* distinct values the random stream id can take

\* ------------------------------------------------------------- constants
Latin1Max == 255     \* btoa throws on a code unit above this
PadSextet == 64      \* the '=' padding character of base64

\* Code units: 32 is a space (removed by trim), 65 is a letter, 255 is the
\* last code unit of Latin-1, 300 is outside Latin-1.
Alphabet == {32, 65, 255, 300}
Whitespace == {32}

NoTimer == 0         \* intervalRef.current === null
NoStreamId == 0      \* streamId === ''

CodeTypes == {"qr", "aztec", "data-matrix"}
FrameRates == {10, 30}

VARIABLES
    text, chunkSize, frameRate, enabled, loop,     \* props
    currentChunkIndex, chunks, streamId, codeType, \* useState
    intervalRef, hasCompletedRef,                  \* useRef
    timers,           \* live intervals, each with what its callback closed over
    updateQueue,      \* setCurrentChunkIndex calls not yet rendered
    pendingChunks,    \* setChunks/setStreamId calls not yet rendered
    effectPending,    \* the scheduler effect is due (chunks changed)
    hasCleanup,       \* the scheduler effect's last run returned its cleanup
    shown,            \* currentChunk of the last render
    canvas,           \* the matrix canvas: "none", "due", "drawn" or "skipped"
    runStart,         \* history: the index the armed timer started from
    runTicks          \* history: callbacks fired since the timer was armed

vars == <<text, chunkSize, frameRate, enabled, loop,
          currentChunkIndex, chunks, streamId, codeType,
          intervalRef, hasCompletedRef, timers, updateQueue, pendingChunks,
          effectPending, hasCleanup, shown, canvas, runStart, runTicks>>

props == <<text, chunkSize, frameRate, enabled, loop>>

\* --------------------------------------------------------------- chunker
Min(a, b) == IF a < b THEN a ELSE b
Max(a, b) == IF a > b THEN a ELSE b

\* Math.ceil(a / b) for a >= 0, b >= 1
Ceil(a, b) == (a + b - 1) \div b

\* Slice starting one code unit late
SliceLate(s, i, j) == SubSeq(s, i + 2, Min(j, Len(s)))

\* text.slice(i, j) with 0-based offsets, j clipped to the length
Slice(s, i, j) == SubSeq(s, i + 1, Min(j, Len(s)))

\* !text || text.trim() === ''
IsBlank(s) == Len(s) = 0 \/ \A k \in 1..Len(s) : s[k] \in Whitespace

\* btoa over bytes: three bytes make four sextets, '=' pads the last group
RECURSIVE Base64(_)
Base64(s) ==
    IF Len(s) = 0 THEN <<>>
    ELSE IF Len(s) = 1 THEN
        <<s[1] \div 4, (s[1] % 4) * 16, PadSextet, PadSextet>>
    ELSE IF Len(s) = 2 THEN
        <<s[1] \div 4, (s[1] % 4) * 16 + s[2] \div 16, (s[2] % 16) * 4, PadSextet>>
    ELSE
        <<s[1] \div 4, (s[1] % 4) * 16 + s[2] \div 16,
          (s[2] % 16) * 4 + s[3] \div 64, s[3] % 64>>
        \o Base64(SubSeq(s, 4, Len(s)))

BtoaThrows(s) == \E k \in 1..Len(s) : s[k] > Latin1Max

\* safeBtoa encoding what it can of a slice that btoa rejects
safeBtoaLossy(s) ==
    IF BtoaThrows(s) THEN Base64(SelectSeq(s, LAMBDA c : c <= Latin1Max)) ELSE Base64(s)

safeBtoa(s) == IF BtoaThrows(s) THEN <<>> ELSE Base64(s)

\* JSON.stringify({id, seq, total, data}): the four members in this order
JSONStringify(id, seq, total, data) == <<id, seq, total, data>>

\* JSON.parse of an envelope string
JSONParse(e) == [id |-> e[1], seq |-> e[2], total |-> e[3], data |-> e[4]]

\* ChunkLoop numbering an envelope by the offset of its slice
RECURSIVE ChunkLoopSeqByOffset(_, _, _, _, _)
ChunkLoopSeqByOffset(t, cs, id, i, acc) ==
    IF i < Len(t)
    THEN ChunkLoopSeqByOffset(t, cs, id, i + cs,
                   Append(acc, JSONStringify(id, i, Ceil(Len(t), cs),
                                             safeBtoa(Slice(t, i, i + cs)))))
    ELSE acc

\* the for loop of the chunking effect: i = 0, chunkSize, 2*chunkSize, ...
RECURSIVE ChunkLoop(_, _, _, _, _)
ChunkLoop(t, cs, id, i, acc) ==
    IF i < Len(t)
    THEN ChunkLoop(t, cs, id, i + cs,
                   Append(acc, JSONStringify(id, i \div cs, Ceil(Len(t), cs),
                                             safeBtoa(Slice(t, i, i + cs)))))
    ELSE acc

newChunks(t, cs, id) == ChunkLoop(t, cs, id, 0, <<>>)

\* --------------------------------------------------------------- renderer
Undefined == <<"undefined">>     \* reading past the end of an array
NoChunk == <<>>                  \* currentChunk when there are no chunks

\* safeIndex clamping to chunks.length instead of chunks.length - 1
safeIndexOffByOne(index, list) ==
    IF Len(list) > 0 THEN Max(0, Min(index, Len(list))) ELSE 0

\* hasChunks ? Math.max(0, Math.min(currentChunkIndex, chunks.length - 1)) : 0
safeIndex(index, list) ==
    IF Len(list) > 0 THEN Max(0, Min(index, Len(list) - 1)) ELSE 0

\* hasChunks ? chunks[safeIndex] : ''
currentChunk(index, list) ==
    IF Len(list) > 0
    THEN IF safeIndex(index, list) + 1 \in DOMAIN list
         THEN list[safeIndex(index, list) + 1] ELSE Undefined
    ELSE NoChunk

\* ------------------------------------------------------------- scheduler
StreamIds == 1..MaxStreamIds
ChunkSizes == 1..MaxChunkSize
TimerIds == 1..MaxTimerIds

\* the texts the component is driven with: empty, all-whitespace, one
\* letter, a letter outside Latin-1 among others, and MaxLen letters
Texts == {<<>>, <<32>>, <<65>>, <<65, 300>>, [k \in 1..MaxLen |-> 65]}

\* tickUpdater with the loop branch not wrapping
tickUpdaterNoWrap(prev, n, lp) ==
    IF prev >= n \/ prev < 0 THEN [index |-> 0, completes |-> FALSE]
    ELSE IF lp THEN [index |-> prev + 1, completes |-> FALSE]
    ELSE IF prev + 1 >= n THEN [index |-> n - 1, completes |-> TRUE]
    ELSE [index |-> prev + 1, completes |-> FALSE]

\* tickUpdater completing one tick early, on reaching the last envelope
tickUpdaterEarly(prev, n, lp) ==
    IF prev >= n \/ prev < 0 THEN [index |-> 0, completes |-> FALSE]
    ELSE IF lp THEN [index |-> (prev + 1) % n, completes |-> FALSE]
    ELSE IF prev + 1 >= n - 1 THEN [index |-> n - 1, completes |-> TRUE]
    ELSE [index |-> prev + 1, completes |-> FALSE]

\* tickUpdater with the loop branch stopping at the last envelope
tickUpdaterStick(prev, n, lp) ==
    IF prev >= n \/ prev < 0 THEN [index |-> 0, completes |-> FALSE]
    ELSE IF lp THEN [index |-> Min(prev + 1, n - 1), completes |-> FALSE]
    ELSE IF prev + 1 >= n THEN [index |-> n - 1, completes |-> TRUE]
    ELSE [index |-> prev + 1, completes |-> FALSE]

\* tickUpdater advancing by two envelopes
tickUpdaterSkip(prev, n, lp) ==
    IF prev >= n \/ prev < 0 THEN [index |-> 0, completes |-> FALSE]
    ELSE IF lp THEN [index |-> (prev + 2) % n, completes |-> FALSE]
    ELSE IF prev + 2 >= n THEN [index |-> n - 1, completes |-> TRUE]
    ELSE [index |-> prev + 2, completes |-> FALSE]

\* the updater passed to setCurrentChunkIndex by the interval callback;
\* n is chunks.length and lp is loop, both as the callback closed over them.
\* completes: the branch that sets hasCompletedRef and clears the interval.
tickUpdater(prev, n, lp) ==
    IF prev >= n \/ prev < 0 THEN [index |-> 0, completes |-> FALSE]
    ELSE IF lp THEN [index |-> (prev + 1) % n, completes |-> FALSE]
    ELSE IF prev + 1 >= n THEN [index |-> n - 1, completes |-> TRUE]
    ELSE [index |-> prev + 1, completes |-> FALSE]

\* clearIntervalRef forgetting the handle without clearing the interval
clearIntervalRefLeak(ts, ref) == ts

\* if (intervalRef.current) { clearInterval(intervalRef.current); ... = null }
clearIntervalRef(ts, ref) == {t \in ts : t.id # ref}

Value(v) == [kind |-> "value", v |-> v]
Updater(t) == [kind |-> "updater", id |-> t.id, n |-> t.n, lp |-> t.lp]

\* setCurrentChunkIndex(0): React drops a set to the current value when no
\* update is pending, and queues it otherwise
setIndexZero(q) ==
    IF q = <<>> /\ pendingChunks = <<>> /\ currentChunkIndex = 0
    THEN q ELSE Append(q, Value(0))

\* the handle setInterval returns: one that nothing refers to
UsedTimerIds(ts, q) ==
    {t.id : t \in ts} \cup {q[k].id : k \in {j \in 1..Len(q) : q[j].kind = "updater"}}
FreshTimerId(ts, q) ==
    CHOOSE id \in TimerIds \ UsedTimerIds(ts, q) :
        \A other \in TimerIds \ UsedTimerIds(ts, q) : id <= other

Quiescent == updateQueue = <<>> /\ pendingChunks = <<>> /\ ~effectPending

\* ChunkingEffect committing a stream id drawn apart from the envelopes' id
ChunkingEffectTwoIds(t, cs) ==
    IF IsBlank(t)
    THEN /\ pendingChunks' = <<[chunks |-> <<>>, streamId |-> NoStreamId]>>
         /\ updateQueue' = Append(updateQueue, Value(0))
         /\ UNCHANGED <<hasCompletedRef, intervalRef, timers>>
    ELSE \E newStreamId \in StreamIds, otherId \in StreamIds :
         /\ pendingChunks' = <<[chunks |-> newChunks(t, cs, otherId),
                                streamId |-> newStreamId]>>
         /\ updateQueue' = Append(updateQueue, Value(0))
         /\ hasCompletedRef' = FALSE
         /\ timers' = clearIntervalRef(timers, intervalRef)
         /\ intervalRef' = NoTimer

\* The chunking effect, dependencies [text, chunkSize].
ChunkingEffect(t, cs) ==
    IF IsBlank(t)
    THEN /\ pendingChunks' = <<[chunks |-> <<>>, streamId |-> NoStreamId]>>
         /\ updateQueue' = Append(updateQueue, Value(0))
         /\ UNCHANGED <<hasCompletedRef, intervalRef, timers>>
    ELSE \E newStreamId \in StreamIds :
         /\ pendingChunks' = <<[chunks |-> newChunks(t, cs, newStreamId),
                                streamId |-> newStreamId]>>
         /\ updateQueue' = Append(updateQueue, Value(0))
         /\ hasCompletedRef' = FALSE
         /\ timers' = clearIntervalRef(timers, intervalRef)
         /\ intervalRef' = NoTimer

\* history: one more callback of timer t has fired (counted modulo the
\* list length for a looping timer, which never stops)
Fired(t) == IF t.lp THEN (runTicks + 1) % t.n ELSE runTicks + 1

\* a render applies the queued updates in order; an updater runs here
RECURSIVE ApplyUpdates(_, _)
ApplyUpdates(q, st) ==
    IF q = <<>> THEN st
    ELSE LET u == Head(q)
             r == tickUpdater(st.index, u.n, u.lp)
         IN  ApplyUpdates(Tail(q),
                 IF u.kind = "value" THEN [st EXCEPT !.index = u.v]
                 ELSE IF r.completes
                 THEN [index |-> r.index, completed |-> TRUE,
                       timers |-> {t \in st.timers : t.id # u.id}, ref |-> NoTimer]
                 ELSE [st EXCEPT !.index = r.index])

\* the index the next render will show
IndexAfter(q) ==
    ApplyUpdates(q, [index |-> currentChunkIndex, completed |-> hasCompletedRef,
                     timers |-> timers, ref |-> intervalRef]).index

\* restartIfCompleted resetting the index on every run
restartIfCompletedAlways(q) == setIndexZero(q)

\* restartIfCompleted without the reset of the index
restartIfCompletedNoReset(q) == q

\* if (hasCompletedRef.current) { setCurrentChunkIndex(0); ... }
restartIfCompleted(q) == IF hasCompletedRef THEN setIndexZero(q) ELSE q

\* SchedulerEffect without its setInterval: restart and clear, no new timer
SchedulerEffectNoArm(en, lp, fr) ==
    LET cleaned == IF hasCleanup THEN clearIntervalRef(timers, intervalRef) ELSE timers
        ref == IF hasCleanup THEN NoTimer ELSE intervalRef
    IN  IF ~en \/ Len(chunks) = 0
        THEN /\ timers' = clearIntervalRef(cleaned, ref)
             /\ intervalRef' = NoTimer
             /\ hasCleanup' = FALSE
             /\ UNCHANGED <<hasCompletedRef, updateQueue, runStart, runTicks>>
        ELSE LET q == restartIfCompleted(updateQueue)
             IN  /\ updateQueue' = q
                 /\ hasCompletedRef' = FALSE
                 /\ timers' = clearIntervalRef(cleaned, ref)
                 /\ intervalRef' = NoTimer
                 /\ hasCleanup' = TRUE
                 /\ runStart' = IndexAfter(q)
                 /\ runTicks' = 0

\* The scheduler effect, dependencies [chunks, enabled, frameRate, loop]:
\* the cleanup its last run returned, then its body.
SchedulerEffect(en, lp, fr) ==
    LET cleaned == IF hasCleanup THEN clearIntervalRef(timers, intervalRef) ELSE timers
        ref == IF hasCleanup THEN NoTimer ELSE intervalRef
    IN  IF ~en \/ Len(chunks) = 0
        THEN /\ timers' = clearIntervalRef(cleaned, ref)
             /\ intervalRef' = NoTimer
             /\ hasCleanup' = FALSE
             /\ UNCHANGED <<hasCompletedRef, updateQueue, runStart, runTicks>>
        ELSE LET q == restartIfCompleted(updateQueue)
                 ts == clearIntervalRef(cleaned, ref)
             IN  /\ TimerIds \ UsedTimerIds(ts, q) # {}
                 /\ updateQueue' = q
                 /\ hasCompletedRef' = FALSE
                 /\ timers' = ts \cup {[id |-> FreshTimerId(ts, q), n |-> Len(chunks),
                                        lp |-> lp, rate |-> fr]}
                 /\ intervalRef' = FreshTimerId(ts, q)
                 /\ hasCleanup' = TRUE
                 /\ runStart' = IndexAfter(q)
                 /\ runTicks' = 0

\* ---------------------------------------------------------------- actions
TypeOK ==
    /\ text \in Texts /\ chunkSize \in ChunkSizes /\ frameRate \in FrameRates
    /\ enabled \in BOOLEAN /\ loop \in BOOLEAN
    /\ currentChunkIndex \in Nat /\ codeType \in CodeTypes
    /\ intervalRef \in TimerIds \cup {NoTimer} /\ hasCompletedRef \in BOOLEAN
    /\ effectPending \in BOOLEAN /\ hasCleanup \in BOOLEAN
    /\ canvas \in {"none", "due", "drawn", "skipped"}

\* mount: the first render shows the initial hook state, then the chunking
\* effect runs on the props and the scheduler effect finds chunks empty
Init ==
    /\ text \in Texts /\ chunkSize \in ChunkSizes /\ frameRate \in FrameRates
    /\ enabled \in BOOLEAN /\ loop \in BOOLEAN
    /\ currentChunkIndex = 0 /\ chunks = <<>> /\ streamId = NoStreamId
    /\ codeType = "qr"
    /\ intervalRef = NoTimer /\ hasCompletedRef = FALSE /\ timers = {}
    /\ updateQueue = <<Value(0)>>
    /\ pendingChunks \in
         IF IsBlank(text) THEN {<<[chunks |-> <<>>, streamId |-> NoStreamId]>>}
         ELSE {<<[chunks |-> newChunks(text, chunkSize, id), streamId |-> id]>> :
                 id \in StreamIds}
    /\ effectPending = FALSE /\ hasCleanup = FALSE
    /\ shown = NoChunk /\ canvas = "none" /\ runStart = 0 /\ runTicks = 0

SetText(t) ==
    /\ Quiescent /\ t # text
    /\ text' = t
    /\ ChunkingEffect(t, chunkSize)
    /\ UNCHANGED <<chunkSize, frameRate, enabled, loop, currentChunkIndex, chunks,
                   streamId, codeType, effectPending, hasCleanup, shown, canvas, runStart,
                   runTicks>>

SetChunkSize(cs) ==
    /\ Quiescent /\ cs # chunkSize
    /\ chunkSize' = cs
    /\ ChunkingEffect(text, cs)
    /\ UNCHANGED <<text, frameRate, enabled, loop, currentChunkIndex, chunks,
                   streamId, codeType, effectPending, hasCleanup, shown, canvas, runStart,
                   runTicks>>

SetEnabled ==
    /\ Quiescent
    /\ enabled' = ~enabled
    /\ SchedulerEffect(~enabled, loop, frameRate)
    /\ UNCHANGED <<text, chunkSize, frameRate, loop, currentChunkIndex, chunks,
                   streamId, codeType, pendingChunks, effectPending, shown, canvas>>

SetLoop ==
    /\ Quiescent
    /\ loop' = ~loop
    /\ SchedulerEffect(enabled, ~loop, frameRate)
    /\ UNCHANGED <<text, chunkSize, frameRate, enabled, currentChunkIndex, chunks,
                   streamId, codeType, pendingChunks, effectPending, shown, canvas>>

\* SetFrameRate as if frameRate were no dependency of the scheduler effect
SetFrameRateNoRearm(fr) ==
    /\ Quiescent /\ fr # frameRate
    /\ frameRate' = fr
    /\ UNCHANGED <<text, chunkSize, enabled, loop, currentChunkIndex, chunks,
                   streamId, codeType, pendingChunks, effectPending, shown, canvas,
                   intervalRef, hasCompletedRef, timers, updateQueue, hasCleanup,
                   runStart, runTicks>>

SetFrameRate(fr) ==
    /\ Quiescent /\ fr # frameRate
    /\ frameRate' = fr
    /\ SchedulerEffect(enabled, loop, fr)
    /\ UNCHANGED <<text, chunkSize, enabled, loop, currentChunkIndex, chunks,
                   streamId, codeType, pendingChunks, effectPending, shown, canvas>>

\* The matrix render effect, dependencies [codeType, currentChunk]: nothing
\* to do for 'qr' or without an envelope; otherwise the encoder either
\* returns a bit matrix, which is painted, or throws, which is logged.
MatrixOutcomes(c, chunk) ==
    IF c = "qr" \/ chunk = NoChunk THEN {"none"} ELSE {"drawn", "skipped"}

\* SetCodeType as if codeType were a dependency of the scheduler effect
SetCodeTypeRearm(c) ==
    /\ chunks # <<>>
    /\ c # codeType
    /\ codeType' = c
    /\ canvas' \in MatrixOutcomes(c, shown)
    /\ Quiescent
    /\ SchedulerEffect(enabled, loop, frameRate)
    /\ UNCHANGED <<props, currentChunkIndex, chunks, streamId, pendingChunks,
                   effectPending, shown>>

\* the selector is on screen only while an envelope is; its change is
\* rendered, and the matrix effect run, in the same step
SetCodeType(c) ==
    /\ chunks # <<>>
    /\ c # codeType
    /\ codeType' = c
    /\ canvas' \in MatrixOutcomes(c, shown)
    /\ UNCHANGED <<props, currentChunkIndex, chunks, streamId, intervalRef,
                   hasCompletedRef, timers, updateQueue, pendingChunks,
                   effectPending, hasCleanup, shown, runStart, runTicks>>

\* the interval callback of timer t, its updater run at once (no update is
\* pending): a result equal to the current index schedules no render
TickEager(t) ==
    LET r == tickUpdater(currentChunkIndex, t.n, t.lp)
    IN  /\ t \in timers
        /\ updateQueue = <<>> /\ pendingChunks = <<>>
        /\ updateQueue' = IF r.index = currentChunkIndex THEN <<>> ELSE <<Value(r.index)>>
        /\ IF r.completes
           THEN /\ hasCompletedRef' = TRUE
                /\ timers' = timers \ {t}
                /\ intervalRef' = NoTimer
           ELSE UNCHANGED <<hasCompletedRef, timers, intervalRef>>
        /\ runTicks' = Fired(t)
        /\ UNCHANGED <<props, currentChunkIndex, chunks, streamId, codeType,
                       pendingChunks, effectPending, hasCleanup, shown, canvas, runStart>>

\* the interval callback of timer t, its updater left for the next render
TickQueued(t) ==
    /\ t \in timers
    /\ Cardinality({k \in 1..Len(updateQueue) : updateQueue[k].kind = "updater"}) < MaxQueue
    /\ updateQueue' = Append(updateQueue, Updater(t))
    /\ runTicks' = Fired(t)
    /\ UNCHANGED <<props, currentChunkIndex, chunks, streamId, codeType, intervalRef,
                   hasCompletedRef, timers, pendingChunks, effectPending, hasCleanup,
                   shown, canvas, runStart>>

Render ==
    /\ ~effectPending
    /\ updateQueue # <<>> \/ pendingChunks # <<>>
    /\ LET st == ApplyUpdates(updateQueue,
                     [index |-> currentChunkIndex, completed |-> hasCompletedRef,
                      timers |-> timers, ref |-> intervalRef])
       IN  /\ currentChunkIndex' = st.index
           /\ hasCompletedRef' = st.completed
           /\ timers' = st.timers
           /\ intervalRef' = st.ref
    /\ updateQueue' = <<>>
    /\ pendingChunks' = <<>>
    /\ IF pendingChunks # <<>>
       THEN /\ chunks' = pendingChunks[1].chunks
            /\ streamId' = pendingChunks[1].streamId
            /\ effectPending' = TRUE
       ELSE UNCHANGED <<chunks, streamId, effectPending>>
    /\ shown' = currentChunk(currentChunkIndex', chunks')
    /\ canvas' = IF codeType = "qr" \/ chunks' = <<>> THEN "none"
                 ELSE IF shown' # shown THEN "due" ELSE canvas
    /\ UNCHANGED <<props, codeType, hasCleanup, runStart, runTicks>>

\* the matrix render effect after a render that changed currentChunk
MatrixEffect ==
    /\ canvas = "due"
    /\ canvas' \in MatrixOutcomes(codeType, shown)
    /\ UNCHANGED <<props, currentChunkIndex, chunks, streamId, codeType, intervalRef,
                   hasCompletedRef, timers, updateQueue, pendingChunks, effectPending,
                   hasCleanup, shown, runStart, runTicks>>

FlushEffects ==
    /\ effectPending
    /\ effectPending' = FALSE
    /\ SchedulerEffect(enabled, loop, frameRate)
    /\ UNCHANGED <<props, currentChunkIndex, chunks, streamId, codeType, pendingChunks,
                   shown, canvas>>

Next ==
    \/ \E t \in Texts : SetText(t)
    \/ \E cs \in ChunkSizes : SetChunkSize(cs)
    \/ SetEnabled
    \/ SetLoop
    \/ \E fr \in FrameRates : SetFrameRate(fr)
    \/ \E c \in CodeTypes : SetCodeType(c)
    \/ \E t \in timers : TickEager(t)
    \/ \E t \in timers : TickQueued(t)
    \/ Render
    \/ FlushEffects
    \/ MatrixEffect

Spec == Init /\ [][Next]_vars

\* an armed interval keeps firing, an update that is queued is rendered, and
\* the effects of a render are run
TimerFires == \E t \in timers : TickEager(t) \/ TickQueued(t)

Fairness == WF_vars(TimerFires) /\ WF_vars(Render) /\ WF_vars(FlushEffects)

\* the scheduler on its own: the code family stays 'qr', which no effect
\* of the scheduler reads
NextScheduler ==
    \/ \E t \in Texts : SetText(t)
    \/ \E cs \in ChunkSizes : SetChunkSize(cs)
    \/ SetEnabled
    \/ SetLoop
    \/ \E fr \in FrameRates : SetFrameRate(fr)
    \/ \E t \in timers : TickEager(t)
    \/ \E t \in timers : TickQueued(t)
    \/ Render
    \/ FlushEffects

SpecFair == Init /\ [][NextScheduler]_vars /\ Fairness

\* ------------------------------------------- the chunker and the renderer
\* as functions of their inputs: every text up to MaxLen code units, every
\* chunk size, and an index on either side of the list
AllTexts == UNION {[1..n -> Alphabet] : n \in 0..MaxLen}
Indexes == (0 - 1)..(MaxLen + 1)

InitPure ==
    /\ text \in AllTexts /\ chunkSize \in ChunkSizes
    /\ currentChunkIndex \in Indexes
    /\ chunks = <<>> /\ streamId = NoStreamId /\ shown = NoChunk /\ canvas = "none"
    /\ frameRate = 10 /\ enabled = TRUE /\ loop \in BOOLEAN /\ codeType = "qr"
    /\ intervalRef = NoTimer /\ hasCompletedRef = FALSE /\ timers = {}
    /\ updateQueue = <<>> /\ pendingChunks = <<>>
    /\ effectPending = FALSE /\ hasCleanup = FALSE
    /\ runStart = 0 /\ runTicks = 0

\* one chunking run over (text, chunkSize), its result put in place (which
\* makes the scheduler effect due)
Chunk ==
    /\ ~effectPending
    /\ IF IsBlank(text)
       THEN chunks' = <<>> /\ streamId' = NoStreamId
       ELSE \E newStreamId \in StreamIds :
              /\ chunks' = newChunks(text, chunkSize, newStreamId)
              /\ streamId' = newStreamId
    /\ effectPending' = TRUE
    /\ UNCHANGED <<props, currentChunkIndex, codeType, intervalRef, hasCompletedRef,
                   timers, updateQueue, pendingChunks, hasCleanup,
                   shown, canvas, runStart, runTicks>>

\* one render of the component body: the envelope it selects
View ==
    /\ shown' = currentChunk(currentChunkIndex, chunks)
    /\ UNCHANGED <<props, currentChunkIndex, chunks, streamId, codeType, intervalRef,
                   hasCompletedRef, timers, updateQueue, pendingChunks, effectPending,
                   hasCleanup, canvas, runStart, runTicks>>

\* one interval callback over the list and the render it schedules: the
\* updater applied to the index as it finds it, in range or not; runStart
\* keeps the index it found
IntervalCallback ==
    LET r == tickUpdater(currentChunkIndex, Len(chunks), loop)
    IN  /\ effectPending /\ chunks # <<>> /\ runTicks = 0
        /\ currentChunkIndex' = r.index
        /\ hasCompletedRef' = r.completes
        /\ runStart' = currentChunkIndex
        /\ runTicks' = 1
        /\ shown' = currentChunk(currentChunkIndex', chunks)
        /\ UNCHANGED <<props, chunks, streamId, codeType, intervalRef, timers,
                       updateQueue, pendingChunks, effectPending, hasCleanup, canvas>>

NextPure == Chunk \/ View \/ IntervalCallback

SpecPure == InitPure /\ [][NextPure]_vars

\* ------------------------------------------------------------- the page
\* The page keeps chunkSize and frameRate and hands them to the component;
\* its two number inputs deliver strings.
MaxInputLen == 3
InputChars == {"-", "0", "1", "2", "5", "x"}
InputStrings == UNION {[1..n -> InputChars] : n \in 0..MaxInputLen}

ChunkSizeDefault == 100
ChunkSizeMin == 10
ChunkSizeMax == 500
FrameRateDefault == 10
FrameRateMin == 1
FrameRateMax == 30

IsDigit(c) == c \in {"0", "1", "2", "5"}
DigitValue(c) == IF c = "0" THEN 0 ELSE IF c = "1" THEN 1 ELSE IF c = "2" THEN 2 ELSE 5

\* the longest prefix of digits
RECURSIVE DigitPrefix(_)
DigitPrefix(s) ==
    IF s = <<>> \/ ~IsDigit(Head(s)) THEN <<>> ELSE <<Head(s)>> \o DigitPrefix(Tail(s))

RECURSIVE Number(_, _)
Number(z, radix) ==
    IF z = <<>> THEN 0
    ELSE Number(SubSeq(z, 1, Len(z) - 1), radix) * radix + DigitValue(z[Len(z)])

\* parseInt(string) with no radix: an optional sign, an optional 0x, then the
\* longest prefix of digits; NaN when there is none
parseInt(s) ==
    LET neg == s # <<>> /\ Head(s) = "-"
        body == IF neg THEN Tail(s) ELSE s
        hex == Len(body) >= 2 /\ body[1] = "0" /\ body[2] = "x"
        z == DigitPrefix(IF hex THEN SubSeq(body, 3, Len(body)) ELSE body)
        n == Number(z, IF hex THEN 16 ELSE 10)
    IN  IF z = <<>> THEN [nan |-> TRUE, v |-> 0]
        ELSE [nan |-> FALSE, v |-> IF neg THEN 0 - n ELSE n]

\* a ?? d in place of a || d: only NaN gives way to the default
OrElseNaNOnly(a, d) == IF a.nan THEN d ELSE a.v

\* a || d on the result of parseInt: NaN and 0 are falsy
OrElse(a, d) == IF a.nan \/ a.v = 0 THEN d ELSE a.v

\* parseInt(e.target.value) || 100, then Math.max(10, Math.min(500, value))
chunkSizeOf(s) == Max(ChunkSizeMin, Min(ChunkSizeMax, OrElse(parseInt(s), ChunkSizeDefault)))

\* parseInt(e.target.value) || 10, then Math.max(1, Math.min(30, value))
frameRateOf(s) == Max(FrameRateMin, Min(FrameRateMax, OrElse(parseInt(s), FrameRateDefault)))

InitPage ==
    /\ text = <<65>> /\ chunkSize = ChunkSizeDefault /\ frameRate = FrameRateDefault
    /\ enabled = TRUE /\ loop = TRUE
    /\ currentChunkIndex = 0 /\ chunks = <<>> /\ streamId = NoStreamId
    /\ codeType = "qr" /\ shown = NoChunk /\ canvas = "none"
    /\ intervalRef = NoTimer /\ hasCompletedRef = FALSE /\ timers = {}
    /\ updateQueue = <<>> /\ pendingChunks = <<>>
    /\ effectPending = FALSE /\ hasCleanup = FALSE
    /\ runStart = 0 /\ runTicks = 0

handleChunkSizeChange(s) ==
    /\ chunkSize' = chunkSizeOf(s)
    /\ UNCHANGED <<text, frameRate, enabled, loop, currentChunkIndex, chunks, streamId,
                   codeType, intervalRef, hasCompletedRef, timers, updateQueue,
                   pendingChunks, effectPending, hasCleanup, shown, canvas, runStart,
                   runTicks>>

handleFrameRateChange(s) ==
    /\ frameRate' = frameRateOf(s)
    /\ UNCHANGED <<text, chunkSize, enabled, loop, currentChunkIndex, chunks, streamId,
                   codeType, intervalRef, hasCompletedRef, timers, updateQueue,
                   pendingChunks, effectPending, hasCleanup, shown, canvas, runStart,
                   runTicks>>

NextPage ==
    \/ \E s \in InputStrings : handleChunkSizeChange(s)
    \/ \E s \in InputStrings : handleFrameRateChange(s)

SpecPage == InitPage /\ [][NextPage]_vars

\* ---------------------------------------------------------------- claims
total == Len(chunks)

\* enabled, a list to play, and nothing waiting to be rendered or run
Settled == enabled /\ chunks # <<>> /\ Quiescent

OneTimer == Cardinality(timers) = 1 /\ \A t \in timers : t.id = intervalRef

SchedulerEffectRan ==
    SetEnabled \/ SetLoop \/ (\E fr \in FrameRates : SetFrameRate(fr)) \/ FlushEffects

ChunkingEffectRan ==
    (\E t \in Texts : SetText(t)) \/ (\E cs \in ChunkSizes : SetChunkSize(cs))

\* C1: whenever the envelope list is non-empty, 0 <= currentIndex <= total-1,
\* after any interleaving of input changes, renders and timer ticks.
C1_IndexInBounds ==
    chunks # <<>> => (0 <= currentChunkIndex /\ currentChunkIndex <= total - 1)

\* a looping list of at least two envelopes shown at its last envelope
C1_Witness ==
    Settled /\ loop /\ total >= 2 /\ currentChunkIndex = total - 1 /\ runTicks = total - 1

\* C2 as claimed: single-pass from index 0, after exactly total-1 ticks the
\* scheduler is Completed (flag set, timer stopped) at index total-1.  Stated
\* for lists of two or more, where total-1 ticks are at least one tick.
C2_CompletedAfterTotalMinusOne ==
    (Settled /\ ~loop /\ runStart = 0 /\ total >= 2 /\ runTicks = total - 1)
        => (hasCompletedRef /\ timers = {} /\ currentChunkIndex = total - 1)

\* C2 amended: single-pass from index 0, after k <= total-1 ticks the index is
\* k and the timer is still running, not completed; the tick after that (the
\* total-th) sets completed, stops the timer and leaves the index at total-1,
\* as does any further tick.
C2_CompletedAfterTotal ==
    (Settled /\ ~loop /\ runStart = 0) =>
        /\ runTicks <= total - 1 =>
              (currentChunkIndex = runTicks /\ ~hasCompletedRef /\ OneTimer)
        /\ runTicks >= total =>
              (currentChunkIndex = total - 1 /\ hasCompletedRef
               /\ timers = {} /\ intervalRef = NoTimer)

\* single-pass over three envelopes, completed by the third tick
C2_Witness ==
    Settled /\ ~loop /\ runStart = 0 /\ total = 3 /\ runTicks = 3 /\ hasCompletedRef

\* C3: in loop mode each tick moves the index to (index+1) mod total, so the
\* index is the start plus the ticks modulo total (the start itself after
\* k*total ticks), and no tick sets completed or stops the timer.
C3_LoopWraps ==
    /\ [](Settled /\ loop =>
            /\ currentChunkIndex = (runStart + runTicks) % total
            /\ ~hasCompletedRef /\ OneTimer)
    /\ [][(loop /\ enabled /\ chunks # <<>> /\ pendingChunks = <<>> /\ ~effectPending
           /\ \E t \in timers : TickEager(t) \/ TickQueued(t))
          => (~hasCompletedRef' /\ timers' = timers /\ intervalRef' = intervalRef
              /\ IndexAfter(updateQueue)' = (IndexAfter(updateQueue) + 1) % total)]_vars

\* a loop over three envelopes back at its start after wrapping
C3_Witness ==
    Settled /\ loop /\ total = 3 /\ runTicks = 0 /\ runStart = 1
    /\ currentChunkIndex = 1 /\ shown = chunks[2]

\* C4: when the scheduler effect runs in Completed with enabled and a
\* non-empty list, the index is reset to 0, completed is cleared and exactly
\* one timer, a new one, is live; playback does not resume from total-1.
C4_RestartFromCompleted ==
    [][(hasCompletedRef /\ enabled' /\ chunks # <<>> /\ SchedulerEffectRan)
       => (~hasCompletedRef' /\ IndexAfter(updateQueue)' = 0 /\ OneTimer'
           /\ runStart' = 0 /\ runTicks' = 0)]_vars

\* just restarted from Completed: the reset is queued, the last envelope of
\* at least two is still on screen, a fresh timer is armed
C4_Witness ==
    /\ enabled /\ total >= 2 /\ currentChunkIndex = total - 1
    /\ updateQueue = <<Value(0)>> /\ pendingChunks = <<>>
    /\ ~hasCompletedRef /\ OneTimer /\ runTicks = 0

\* C7: at most one interval is live at any instant, and intervalRef holds
\* the handle of the live one, or null when none is live.
C7_OneLiveTimer ==
    /\ Cardinality(timers) <= 1
    /\ timers = {} => intervalRef = NoTimer
    /\ \A t \in timers : t.id = intervalRef

\* a timer re-armed after a frame rate change: the old one is gone
C7_Witness ==
    Settled /\ OneTimer /\ \E t \in timers : t.rate = 30 /\ t.id = intervalRef /\ runTicks = 0
             /\ currentChunkIndex > 0

\* C8: disabling while Running cancels the timer and leaves the index alone;
\* while disabled no timer is live and, text and chunkSize unchanged, the
\* index does not change; re-enabling arms one timer that continues from
\* that same index.
C8_PauseKeepsIndex ==
    /\ [][(SetEnabled /\ enabled /\ chunks # <<>> /\ ~hasCompletedRef)
          => (timers' = {} /\ intervalRef' = NoTimer /\ updateQueue' = <<>>
              /\ currentChunkIndex' = currentChunkIndex)]_vars
    /\ [](~enabled => timers = {})
    /\ [][(~enabled /\ ~enabled' /\ Quiescent)
          => currentChunkIndex' = currentChunkIndex]_vars
    /\ [][(SetEnabled /\ ~enabled /\ chunks # <<>> /\ ~hasCompletedRef)
          => (OneTimer' /\ updateQueue' = <<>> /\ runStart' = currentChunkIndex
              /\ currentChunkIndex' = currentChunkIndex)]_vars

\* paused in the middle of a list of three
C8_Witness ==
    /\ ~enabled /\ Quiescent /\ total = 3 /\ currentChunkIndex = 1
    /\ ~hasCompletedRef /\ timers = {} /\ intervalRef = NoTimer

\* C9: with a non-empty list the renderer reads envelopes[safeIndex], where
\* safeIndex is the index clamped into [0, total-1]: the envelope exists, also
\* for an index outside [0, total).
C9_SafeIndexInBounds ==
    (chunks # <<>> /\ shown # NoChunk) =>
        LET k == safeIndex(currentChunkIndex, chunks)
        IN  /\ shown # Undefined
            /\ 0 <= k /\ k < total
            /\ currentChunkIndex < 0 => k = 0
            /\ currentChunkIndex > total - 1 => k = total - 1
            /\ (0 <= currentChunkIndex /\ currentChunkIndex <= total - 1)
                  => k = currentChunkIndex
            /\ shown = chunks[k + 1]
            /\ JSONParse(shown).seq = k

\* a list of two rendered with the index past its end
C9_Witness ==
    total = 2 /\ currentChunkIndex > total - 1 /\ shown = chunks[2]

\* C10: one chunking run over a non-blank text yields ceil(len/chunkSize)
\* envelopes, the one at position i with seq = i, all with that total and
\* with the stream id of the run.
C10_Partition ==
    streamId # NoStreamId =>
        /\ total * chunkSize >= Len(text)
        /\ (total - 1) * chunkSize < Len(text)
        /\ \A i \in 1..total :
              /\ JSONParse(chunks[i]).seq = i - 1
              /\ JSONParse(chunks[i]).total = total
              /\ JSONParse(chunks[i]).id = streamId

\* three code units in chunks of two: two envelopes
C10_Witness ==
    /\ streamId # NoStreamId /\ Len(text) = 3 /\ chunkSize = 2 /\ total = 2
    /\ JSONParse(chunks[2]).seq = 1

\* C5: a change of text or chunkSize yields index 0 once the new list is in
\* place, whatever the scheduler state was, and no tick of the old timer
\* moves the index off 0 before the new list's timer is armed.
C5_ResetOnInputChange ==
    /\ [][(Render /\ pendingChunks # <<>>) => currentChunkIndex' = 0]_vars
    /\ [](effectPending => IndexAfter(updateQueue) = 0)

\* C6: the chunking step itself, for an empty new list as for a non-empty
\* one, cancels the live timer, resets the index to 0 and clears completed.
C6_ChunkingStepResets ==
    [][ChunkingEffectRan
       => (timers' = {} /\ intervalRef' = NoTimer /\ ~hasCompletedRef'
           /\ IndexAfter(updateQueue)' = 0)]_vars

\* ---- decoding, as a reader of the envelopes would do it
\* atob: four sextets make three bytes, '=' marks the bytes that are absent
RECURSIVE Atob(_)
Atob(d) ==
    IF Len(d) < 4 THEN <<>>
    ELSE (IF d[3] = PadSextet THEN <<d[1] * 4 + d[2] \div 16>>
          ELSE IF d[4] = PadSextet
          THEN <<d[1] * 4 + d[2] \div 16, (d[2] % 16) * 16 + d[3] \div 4>>
          ELSE <<d[1] * 4 + d[2] \div 16, (d[2] % 16) * 16 + d[3] \div 4,
                 (d[3] % 4) * 64 + d[4]>>)
         \o Atob(SubSeq(d, 5, Len(d)))

\* the decoded data of the envelopes with seq 0..k-1, concatenated in order
RECURSIVE Reassembled(_, _)
Reassembled(list, k) ==
    IF k = 0 THEN <<>>
    ELSE Reassembled(list, k - 1)
         \o Atob(JSONParse(CHOOSE e \in {list[i] : i \in 1..Len(list)} :
                               JSONParse(e).seq = k - 1).data)

NoEncodingFailure(t) == ~BtoaThrows(t)

SliceLengthsOK ==
    \A i \in 1..total :
        LET n == Len(Atob(JSONParse(chunks[i]).data))
        IN  IF i < total THEN n = chunkSize ELSE 1 <= n /\ n <= chunkSize

\* C11 as claimed: for every text, absent an encoding failure, the decoded
\* data fields concatenated in seq order are the text, and every slice but
\* the last has chunkSize code units, the last between 1 and chunkSize.
C11_RoundTripEveryText ==
    (effectPending /\ NoEncodingFailure(text))
        => (Reassembled(chunks, total) = text /\ SliceLengthsOK)

\* C11 amended: the same for every text that is not a non-empty run of
\* whitespace only (such a text yields no envelope at all).
C11_RoundTrip ==
    (effectPending /\ NoEncodingFailure(text) /\ (text = <<>> \/ ~IsBlank(text)))
        => (Reassembled(chunks, total) = text /\ SliceLengthsOK)

\* three code units, the last of Latin-1 among them, in two envelopes
C11_Witness ==
    /\ effectPending /\ Len(text) = 3 /\ chunkSize = 2 /\ total = 2
    /\ text[1] = 255 /\ text[3] = 32
    /\ Reassembled(chunks, total) = text

\* the text with every code unit btoa rejects replaced by a letter
Encodable(t) == [k \in 1..Len(t) |-> IF t[k] > Latin1Max THEN 65 ELSE t[k]]

\* the slice of envelope i (1-based) holds a code unit btoa rejects
SliceFails(t, cs, i) ==
    \E k \in ((i - 1) * cs + 1)..Min(i * cs, Len(t)) : t[k] > Latin1Max

\* C12: a slice that btoa rejects does not stop the chunking run: its
\* envelope has data '' and its own seq and total, and the number of
\* envelopes and every other envelope are those of a run without failure.
\* (The scheduler reads only the length of the list, see tickUpdater.)
C12_EncodingFailureDegrades ==
    streamId # NoStreamId =>
        LET clean == newChunks(Encodable(text), chunkSize, streamId)
        IN  /\ total = Len(clean)
            /\ \A i \in 1..total :
                  /\ JSONParse(chunks[i]).seq = i - 1
                  /\ JSONParse(chunks[i]).total = total
                  /\ SliceFails(text, chunkSize, i) => JSONParse(chunks[i]).data = <<>>
                  /\ ~SliceFails(text, chunkSize, i) => chunks[i] = clean[i]

\* the middle of three one-unit slices fails, the other two are encoded
C12_Witness ==
    /\ streamId # NoStreamId /\ chunkSize = 1 /\ total = 3
    /\ text[2] > Latin1Max /\ text[1] = 65 /\ text[3] = 255
    /\ JSONParse(chunks[2]).data = <<>>
    /\ JSONParse(chunks[1]).data # <<>> /\ JSONParse(chunks[3]).data # <<>>

\* C13: a blank text yields an empty list and an empty stream id, and while
\* the list is empty no timer is live (so no tick moves the index),
\* whatever enabled, loop and frameRate are; a non-blank text is chunked
\* untrimmed.
C13_BlankIsIdle ==
    /\ (Quiescent /\ IsBlank(text)) => (chunks = <<>> /\ streamId = NoStreamId)
    /\ chunks = <<>> => (timers = {} /\ intervalRef = NoTimer)
    /\ (Quiescent /\ ~IsBlank(text)) =>
          (total = Len(newChunks(text, chunkSize, streamId))
           /\ total * chunkSize >= Len(text))

\* C14: a change of the code family, and a draw of a frame whether the
\* encoder throws or not, leave the index, the completed flag, the list, the
\* stream id and the timer as they are (neither cancelled nor re-armed); a
\* running scheduler still has its timer after a skipped draw.
C14_CodeFamilyAndDrawFrame ==
    /\ [][((\E c \in CodeTypes : SetCodeType(c)) \/ MatrixEffect)
          => UNCHANGED <<currentChunkIndex, hasCompletedRef, chunks, streamId, timers,
                         intervalRef, updateQueue, pendingChunks, runStart, runTicks>>]_vars
    /\ []((canvas = "skipped" /\ Settled /\ ~hasCompletedRef) => OneTimer)

\* frame 1 was not drawn because the encoder threw, and the next tick has
\* moved on to frame 2
C14_Witness ==
    /\ codeType = "aztec" /\ canvas = "skipped" /\ OneTimer
    /\ currentChunkIndex = 1 /\ updateQueue = <<Value(2)>>

\* ---- stream ids
\* the members of each envelope other than its id
WithoutId(list) ==
    [i \in 1..Len(list) |->
        LET e == JSONParse(list[i]) IN <<e.seq, e.total, e.data>>]

\* a chunking run r = [chunks, streamId] over (text, chunkSize): every
\* envelope carries the run's id, and whatever the id, seq, total and data
\* are those of the chunker on (text, chunkSize)
RunOK(r) ==
    /\ r.streamId \in StreamIds
    /\ \A i \in 1..Len(r.chunks) : JSONParse(r.chunks[i]).id = r.streamId
    /\ \A id \in StreamIds :
          WithoutId(r.chunks) = WithoutId(newChunks(text, chunkSize, id))

C16_OutOfRangeTickAdvancesFromZero ==
    (runTicks = 1 /\ (runStart < 0 \/ runStart >= total)) =>
        IF loop THEN currentChunkIndex = 1 % total
        ELSE IF total > 1 THEN currentChunkIndex = 1 /\ ~hasCompletedRef
        ELSE currentChunkIndex = total - 1 /\ hasCompletedRef

\* ---- rate and loop changes
Running == enabled /\ chunks # <<>> /\ ~hasCompletedRef

\* C17: a change of frameRate or loop while Running leaves the index and the
\* completed flag as they are, cancels the old timer and arms exactly one new
\* timer, over the same list, with the new rate (period 1000/frameRate) and
\* the new loop value, counting from the index current at the change; the
\* ticks of a timer advance from the index it was armed at.
C17_RateOrLoopChangeRearms ==
    /\ [][((SetLoop \/ (\E fr \in FrameRates : SetFrameRate(fr))) /\ Running)
          => /\ currentChunkIndex' = currentChunkIndex
             /\ hasCompletedRef' = hasCompletedRef
             /\ updateQueue' = <<>>
             /\ timers' \cap timers = {}
             /\ Cardinality(timers') = 1
             /\ \A t \in timers' :
                   /\ t.id = intervalRef'
                   /\ t.rate = frameRate' /\ t.lp = loop' /\ t.n = total
             /\ runStart' = currentChunkIndex /\ runTicks' = 0]_vars
    /\ []((Settled /\ OneTimer) =>
             currentChunkIndex = IF loop THEN (runStart + runTicks) % total
                                 ELSE Min(runStart + runTicks, total - 1))

\* after a change to 30 frames a second at envelope 1 of 3, the new timer
\* has ticked once and envelope 2 is shown
C17_Witness ==
    /\ Settled /\ OneTimer /\ total = 3 /\ ~loop
    /\ \A t \in timers : t.rate = 30
    /\ runStart = 1 /\ runTicks = 1 /\ currentChunkIndex = 2

\* ---- single pass
Completed ==
    /\ hasCompletedRef /\ timers = {} /\ intervalRef = NoTimer
    /\ chunks # <<>> /\ currentChunkIndex = total - 1
    /\ Quiescent

\* the inputs of a single-pass playback: enabled, not looping, a text to chunk
SinglePass == enabled /\ ~loop /\ ~IsBlank(text)

\* C18: with the timer firing fairly, unless the inputs keep changing for
\* ever, a single-pass playback that is enabled over a non-blank text is
\* from some point on Completed (flag set, timer stopped, index total-1) and
\* stays so; and in Completed nothing but an input change changes the
\* scheduler's state again.
C18_SinglePassCompletes ==
    /\ \/ []<><<props' # props>>_vars
       \/ <>[](SinglePass => Completed)
    /\ [][(Completed /\ props' = props)
           => UNCHANGED <<currentChunkIndex, hasCompletedRef, chunks, streamId, timers,
                          intervalRef, updateQueue, pendingChunks, effectPending>>]_vars

\* three envelopes played once to the end
C18_Witness ==
    Completed /\ enabled /\ ~loop /\ total = 3 /\ runStart = 0 /\ runTicks >= 3

\* ---- the page's number inputs
Falsy(a) == a.nan \/ a.v = 0

\* C19: whatever strings the two number inputs deliver, the chunkSize the
\* page holds is an integer in [10, 500] and the frameRate an integer in
\* [1, 30]; a string that does not parse, or parses to 0, gives 100 and 10;
\* so chunkSize >= 1, the slicing loop ends after ceil(len/chunkSize) rounds,
\* and the period 1000/frameRate is positive and finite.
C19_PageClampsInputs ==
    /\ chunkSize \in ChunkSizeMin..ChunkSizeMax
    /\ frameRate \in FrameRateMin..FrameRateMax
    /\ \A s \in InputStrings :
          Falsy(parseInt(s)) =>
              (chunkSizeOf(s) = ChunkSizeDefault /\ frameRateOf(s) = FrameRateDefault)
    /\ chunkSize >= 1
    /\ Len(newChunks(text, chunkSize, 1)) = Ceil(Len(text), chunkSize)
    /\ frameRate > 0 /\ 1000 \div frameRate >= 1000 \div FrameRateMax

\* an oversized chunk size and an undersized frame rate, both clamped
C19_Witness ==
    /\ chunkSize = ChunkSizeMax /\ chunkSizeOf(<<"5", "5", "5">>) = ChunkSizeMax
    /\ frameRate = FrameRateMin /\ frameRateOf(<<"-", "5">>) = FrameRateMin

\* ---- the completed flag
\* timer t takes the completing branch in this step: at once in its
\* callback, or in the render that runs its queued updater
CompletingTick(t) ==
    /\ ~t.lp /\ ~loop /\ t.n = total
    /\ t \in timers /\ t \notin timers'
    /\ currentChunkIndex' = total - 1
    /\ \/ TickEager(t) /\ currentChunkIndex = total - 1
       \/ Render /\ \E k \in 1..Len(updateQueue) : updateQueue[k] = Updater(t)

\* C20: while the completed flag is set and the list is non-empty, the index
\* is total-1 and no timer is live; the flag is never set while a timer is
\* armed; and the flag goes up only in a single-pass tick at index total-1.
\* (The last part fails where a blank text has emptied the list and the
\* timer of the old list, not cancelled by the chunking effect, completes.)
C20_CompletedFlag ==
    /\ []((hasCompletedRef /\ chunks # <<>>) =>
             (currentChunkIndex = total - 1 /\ timers = {} /\ intervalRef = NoTimer))
    /\ [](hasCompletedRef => timers = {})
    /\ [][(~hasCompletedRef /\ hasCompletedRef') => \E t \in timers : CompletingTick(t)]_vars

\* ---- the order of the envelopes
\* the envelope after envelope a in a list of n: the next one, the first one
\* again when looping, and none after the last in a single pass
Succ(a, n, lp) == IF a + 1 < n THEN a + 1 ELSE IF lp THEN 0 ELSE a

\* update u applied at index a over the current list: a tick goes to
\* Succ(a); a set goes one up, or from the last envelope to the first
UpdateOK(u, a) ==
    IF u.kind = "updater"
    THEN /\ u.n = total /\ u.lp = loop
         /\ tickUpdater(a, u.n, u.lp).index = Succ(a, total, loop)
    ELSE \/ u.v = a + 1 /\ a + 1 < total
         \/ u.v = 0 /\ a = total - 1

RECURSIVE QueueOK(_, _)
QueueOK(q, a) ==
    \/ q = <<>>
    \/ /\ 0 <= a /\ a < total
       /\ UpdateOK(Head(q), a)
       /\ QueueOK(Tail(q),
                  IF Head(q).kind = "value" THEN Head(q).v
                  ELSE tickUpdater(a, Head(q).n, Head(q).lp).index)

ListUnchanged == chunks # <<>> /\ pendingChunks = <<>> /\ pendingChunks' = <<>>

====
